---------------------------- MODULE Spec2Model ----------------------------
(***************************************************************************)
(* Model of the XC_Template static-site builders:                          *)
(*   src/meets/meet_builder.py            (script "meet_builder")          *)
(*   src/home_builder.py                  (script "home_builder")          *)
(*   src/meets/csv_to_race_page_html.py   (script "race_page")             *)
(*   src/mens_team/athlete_builder.py     (script "athlete_builder")       *)
(*                                                                         *)
(* Text is modelled as a sequence of one-character strings, so that        *)
(* strip, rstrip, isdigit, int, lower, startswith, `in` and split are      *)
(* computed character by character, as Python computes them.  The CSV      *)
(* inputs of the model contain no quote characters, so csv.reader is a     *)
(* split of each line on ",".                                              *)
(***************************************************************************)
EXTENDS Integers, Sequences, FiniteSets, TLC

VARIABLES
    script,        \* which source file's code is running
    csv_files,     \* the batch: the CSV files the directory listing returned
    next_file,     \* index of the next file of the batch (the for-loop position)
    records,       \* per processed file: what the loop body did with it
    raised,        \* "none", or the exception that left the loop and ended the run
    recent_races,  \* home_builder.py: meet name -> [meet_date, skyline, race_html]
    index_html,    \* home_builder.py: what the code after the loop built and wrote
    arg,           \* argument of the helper function under call
    pc,            \* "call" before the helper ran, "return" after
    ret            \* the helper's return value

vars == <<script, csv_files, next_file, records, raised, recent_races, index_html, arg, pc, ret>>

(***************************************************************************)
(* Bounds of the model.                                                    *)
(***************************************************************************)
MaxFiles == 2       \* files in a batch
MaxRows == 3        \* individual-result rows of a meet file, teams varying
MaxSortRows == 4    \* individual-result rows of a meet file, places varying
MaxAthleteRows == 4 \* rows in a generated athlete file
MaxRaceRows == 3    \* data rows of an athlete file, fields varying
MaxHomeFiles == 3   \* meet files of a home_builder.py run, names and dates varying
MaxTimeLen == 4     \* characters of a generated time text
MaxOrdinal == 120   \* largest place number given to ordinal

(***************************************************************************)
(* Characters and the Python str methods the sources use.                  *)
(***************************************************************************)
Digits == <<"0", "1", "2", "3", "4", "5", "6", "7", "8", "9">>

UpperCase == <<"A", "B", "C", "D", "E", "F", "G", "H", "I", "J", "K", "L", "M",
               "N", "O", "P", "Q", "R", "S", "T", "U", "V", "W", "X", "Y", "Z">>

LowerCase == <<"a", "b", "c", "d", "e", "f", "g", "h", "i", "j", "k", "l", "m",
               "n", "o", "p", "q", "r", "s", "t", "u", "v", "w", "x", "y", "z">>

Range(s) == {s[i] : i \in DOMAIN s}

IndexIn(c, s) == CHOOSE i \in DOMAIN s : s[i] = c

IsDigitChar(c) == c \in Range(Digits)

DigitVal(c) == IndexIn(c, Digits) - 1

IsSpace(c) == c \in {" ", "\t"}

\* str.strip(): drop leading and trailing whitespace
RECURSIVE lstrip(_)
lstrip(s) == IF s # <<>> /\ IsSpace(Head(s)) THEN lstrip(Tail(s)) ELSE s

RECURSIVE rstrip_space(_)
rstrip_space(s) ==
    IF s # <<>> /\ IsSpace(s[Len(s)]) THEN rstrip_space(SubSeq(s, 1, Len(s) - 1)) ELSE s

strip(s) == rstrip_space(lstrip(s))

\* str.rstrip("."): drop every trailing "."
RECURSIVE rstrip_dot(_)
rstrip_dot(s) ==
    IF s # <<>> /\ s[Len(s)] = "." THEN rstrip_dot(SubSeq(s, 1, Len(s) - 1)) ELSE s

\* str.isdigit(): non-empty and digits only
isdigit(s) == s # <<>> /\ \A i \in DOMAIN s : IsDigitChar(s[i])

\* int(s) of a digit string
RECURSIVE int(_)
int(s) == IF s = <<>> THEN 0 ELSE 10 * int(SubSeq(s, 1, Len(s) - 1)) + DigitVal(s[Len(s)])

\* f"{n}": the decimal digits of n >= 0, no leading zeros
RECURSIVE format_int(_)
format_int(n) ==
    IF n < 10 THEN <<Digits[n + 1]>> ELSE format_int(n \div 10) \o <<Digits[(n % 10) + 1]>>

lower_char(c) == IF c \in Range(UpperCase) THEN LowerCase[IndexIn(c, UpperCase)] ELSE c

\* str.lower()
lower(s) == [i \in DOMAIN s |-> lower_char(s[i])]

\* str.startswith(prefix)
startswith(s, prefix) == Len(prefix) <= Len(s) /\ SubSeq(s, 1, Len(prefix)) = prefix

\* `sub in s`
contains(s, sub) ==
    \E i \in 1..(Len(s) - Len(sub) + 1) : SubSeq(s, i, i + Len(sub) - 1) = sub

\* str.split(sep) for a one-character separator: always at least one part
RECURSIVE split(_, _)
split(s, sep) ==
    IF \A i \in DOMAIN s : s[i] # sep
    THEN <<s>>
    ELSE LET k == CHOOSE i \in DOMAIN s : s[i] = sep /\ \A j \in 1..(i - 1) : s[j] # sep
         IN <<SubSeq(s, 1, k - 1)>> \o split(SubSeq(s, k + 1, Len(s)), sep)

\* sep.join(parts)
RECURSIVE join(_, _)
join(parts, sep) ==
    IF parts = <<>> THEN <<>>
    ELSE IF Len(parts) = 1 THEN parts[1]
    ELSE parts[1] \o <<sep>> \o join(Tail(parts), sep)

(***************************************************************************)
(* ordinal: one definition per source file.                                *)
(***************************************************************************)
\* {1: "st", 2: "nd", 3: "rd"}.get(n % 10, "th")
suffix_by_last_digit(n) ==
    CASE n % 10 = 1 -> <<"s", "t">>
      [] n % 10 = 2 -> <<"n", "d">>
      [] n % 10 = 3 -> <<"r", "d">>
      [] OTHER -> <<"t", "h">>

\* the branch on the teens with the "% 100" forgotten
suffix_10_20_no_mod(n) ==
    IF 10 <= n /\ n <= 20 THEN <<"t", "h">> ELSE suffix_by_last_digit(n)

\* the branch on the teens of meet_builder.py, home_builder.py, athlete_builder.py
suffix_10_20(n) ==
    IF 10 <= (n % 100) /\ (n % 100) <= 20 THEN <<"t", "h">> ELSE suffix_by_last_digit(n)

\* the branch on the teens with 13 left out
suffix_11_12(n) ==
    IF 11 <= (n % 100) /\ (n % 100) <= 12 THEN <<"t", "h">> ELSE suffix_by_last_digit(n)

\* the branch on the teens of csv_to_race_page_html.py
suffix_11_13(n) ==
    IF 11 <= (n % 100) /\ (n % 100) <= 13 THEN <<"t", "h">> ELSE suffix_by_last_digit(n)

\* meet_builder.py: a non-numeric place_str is returned as passed in
ordinal_meet_builder(place_str) ==
    IF place_str = <<>> THEN <<>>
    ELSE LET s == rstrip_dot(strip(place_str))
         IN IF ~isdigit(s) THEN place_str
            ELSE format_int(int(s)) \o suffix_10_20(int(s))

\* home_builder.py: the same text as meet_builder.py
ordinal_home_builder(place_str) ==
    IF place_str = <<>> THEN <<>>
    ELSE LET s == rstrip_dot(strip(place_str))
         IN IF ~isdigit(s) THEN place_str
            ELSE format_int(int(s)) \o suffix_10_20(int(s))

\* csv_to_race_page_html.py: `place` is rebound before the test, so a
\* non-numeric place comes back stripped and without its trailing dots
ordinal_race_page(place) ==
    LET p == rstrip_dot(strip(place))
    IN IF ~isdigit(p) THEN p
       ELSE format_int(int(p)) \o suffix_11_13(int(p))

\* athlete_builder.py: a non-numeric place_str comes back stripped
ordinal_athlete_builder(place_str) ==
    LET s == rstrip_dot(strip(place_str))
    IN IF ~isdigit(s) THEN strip(place_str)
       ELSE format_int(int(s)) \o suffix_10_20(int(s))

Scripts == {"meet_builder", "home_builder", "race_page", "athlete_builder"}

ordinal(file, place) ==
    CASE file = "meet_builder" -> ordinal_meet_builder(place)
      [] file = "home_builder" -> ordinal_home_builder(place)
      [] file = "race_page" -> ordinal_race_page(place)
      [] file = "athlete_builder" -> ordinal_athlete_builder(place)


(***************************************************************************)
(* athlete_builder.py: parse_time_to_seconds.                              *)
(* A float is kept as an exact decimal: its whole part and the digits of   *)
(* its fraction without trailing zeros.                                    *)
(***************************************************************************)
None == [none |-> TRUE]

Seconds(w, f) == [none |-> FALSE, whole |-> w, frac |-> f]

\* re.sub(r"(PR|\*|SR)", "", s, flags=re.IGNORECASE): leftmost matches, left to right
RECURSIVE remove_annotations(_)
remove_annotations(s) ==
    IF s = <<>> THEN <<>>
    ELSE IF Len(s) >= 2 /\ lower(SubSeq(s, 1, 2)) \in {<<"p", "r">>, <<"s", "r">>}
    THEN remove_annotations(SubSeq(s, 3, Len(s)))
    ELSE IF Head(s) = "*" THEN remove_annotations(Tail(s))
    ELSE <<Head(s)>> \o remove_annotations(Tail(s))

\* re.sub(r"[^0-9:\.]", "", s)
keep_time_chars(s) == SelectSeq(s, LAMBDA c : IsDigitChar(c) \/ c = ":" \/ c = ".")

RECURSIVE rstrip_zero(_)
rstrip_zero(s) ==
    IF s # <<>> /\ s[Len(s)] = "0" THEN rstrip_zero(SubSeq(s, 1, Len(s) - 1)) ELSE s

\* int(parts[0]) of a text of digits, ":" and ".": ValueError unless digits only
int_raises(s) == ~isdigit(s)

\* float(parts[1]) of a text of digits and ".": ValueError unless it has a
\* digit and at most one "."
float_raises(s) ==
    \/ Len(split(s, ".")) > 2
    \/ \A i \in DOMAIN s : ~IsDigitChar(s[i])

float_whole(s) == int(split(s, ".")[1])

float_frac(s) == IF Len(split(s, ".")) = 2 THEN rstrip_zero(split(s, ".")[2]) ELSE <<>>

\* parse_time_to_seconds without the `len(parts) != 2` test
parse_time_any_parts(t) ==
    IF t = <<>> THEN None
    ELSE LET s == keep_time_chars(strip(remove_annotations(strip(t))))
             parts == split(s, ":")
         IN IF \A i \in DOMAIN s : s[i] # ":" THEN None
            ELSE IF int_raises(parts[1]) \/ float_raises(parts[2]) THEN None
            ELSE Seconds(int(parts[1]) * 60 + float_whole(parts[2]), float_frac(parts[2]))

parse_time_to_seconds(t) ==
    IF t = <<>> THEN None
    ELSE LET s == keep_time_chars(strip(remove_annotations(strip(t))))
             parts == split(s, ":")
         IN IF \A i \in DOMAIN s : s[i] # ":" THEN None
            ELSE IF Len(parts) # 2 THEN None
            ELSE IF int_raises(parts[1]) \/ float_raises(parts[2]) THEN None
            ELSE Seconds(int(parts[1]) * 60 + float_whole(parts[2]), float_frac(parts[2]))

(***************************************************************************)
(* Helpers shared by the three meet scripts.                               *)
(***************************************************************************)
W_Place == <<"P", "l", "a", "c", "e">>
W_Team == <<"T", "e", "a", "m">>
W_Grade == <<"G", "r", "a", "d", "e">>
W_Name == <<"N", "a", "m", "e">>
W_Time == <<"T", "i", "m", "e">>
W_AthleteLink == <<"A", "t", "h", "l", "e", "t", "e", " ", "L", "i", "n", "k">>
W_TeamLink == <<"T", "e", "a", "m", " ", "L", "i", "n", "k">>
W_ProfilePic == <<"P", "r", "o", "f", "i", "l", "e", " ", "P", "i", "c">>

SKYLINE_TEAM_NAME ==
    <<"A", "n", "n", " ", "A", "r", "b", "o", "r", " ", "S", "k", "y", "l", "i", "n", "e">>

ann_arbor_skyline ==
    <<"a", "n", "n", " ", "a", "r", "b", "o", "r", " ", "s", "k", "y", "l", "i", "n", "e">>

PLACE_SENTINEL == 999999

MIN_LINES == 6

MIN_ROWS == 5

INDIVIDUAL_COLUMNS == 8

\* csv.reader over text lines without quote characters: an empty line is the
\* empty row, any other line is split on ","
csv_reader(lines) ==
    [i \in DOMAIN lines |-> IF lines[i] = <<>> THEN <<>> ELSE split(lines[i], ",")]

\* all(c.strip() == "" for c in row); true of the empty row
blank_row(row) == \A i \in DOMAIN row : strip(row[i]) = <<>>

\* parse_csv_block: the rows that have a non-blank cell
parse_csv_block(block_lines) == SelectSeq(csv_reader(block_lines), LAMBDA row : ~blank_row(row))

\* meet_builder.py find_line_index: 0-based index of the first line starting
\* with the text, else -1
find_line_index_startswith(lines, text) ==
    IF \E i \in DOMAIN lines : startswith(lines[i], text)
    THEN (CHOOSE i \in DOMAIN lines :
              startswith(lines[i], text) /\ \A j \in 1..(i - 1) : ~startswith(lines[j], text)) - 1
    ELSE -1

\* home_builder.py find_line_index: 0-based index of the first line containing
\* the text, else -1
find_line_index_contains(lines, text) ==
    IF \E i \in DOMAIN lines : contains(lines[i], text)
    THEN (CHOOSE i \in DOMAIN lines :
              contains(lines[i], text) /\ \A j \in 1..(i - 1) : ~contains(lines[j], text)) - 1
    ELSE -1

\* row + [""] * (len(header) - len(row)) when the row is shorter
pad_row(row, n) == IF Len(row) < n THEN row \o [i \in 1..(n - Len(row)) |-> <<>>] ELSE row

Min(a, b) == IF a < b THEN a ELSE b

\* dict(zip(header, row)): keys are the header cells that have a value; a
\* repeated key keeps its last value
dict_zip(header, row) ==
    LET n == Min(Len(header), Len(row))
    IN [k \in {header[i] : i \in 1..n} |->
           row[CHOOSE i \in 1..n : header[i] = k /\ \A j \in (i + 1)..n : header[j] # k]]

\* safe_get(row_dict, key, default)
safe_get(row_dict, key, default) == IF key \in DOMAIN row_dict THEN row_dict[key] ELSE default

\* the rows of the individual block as dicts, short rows padded
build_dicts(indiv_header, indiv_data) ==
    [i \in DOMAIN indiv_data |-> dict_zip(indiv_header, pad_row(indiv_data[i], Len(indiv_header)))]

\* list.sort / sorted: the order of a stable sort of the keys, as indices
\* into the list (insertion of each element after its equals)
RECURSIVE stable_order(_)
stable_order(keys) ==
    IF keys = <<>> THEN <<>>
    ELSE LET n == Len(keys)
             front == stable_order(SubSeq(keys, 1, n - 1))
             pos == Cardinality({i \in 1..(n - 1) : keys[i] <= keys[n]})
         IN SubSeq(front, 1, pos) \o <<n>> \o SubSeq(front, pos + 1, n - 1)

\* place_key without the rstrip(".")
place_key_no_rstrip(r) ==
    LET p == strip(safe_get(r, W_Place, <<>>))
    IN IF isdigit(p) THEN int(p) ELSE PLACE_SENTINEL

\* place_key of meet_builder.py and home_builder.py
place_key(r) ==
    LET p == rstrip_dot(strip(safe_get(r, W_Place, <<>>)))
    IN IF isdigit(p) THEN int(p) ELSE PLACE_SENTINEL

\* skyline.sort(key=place_key)
sort_by_place(rows) ==
    LET order == stable_order([i \in DOMAIN rows |-> place_key(rows[i])])
    IN [i \in DOMAIN rows |-> rows[order[i]]]

\* the filter with the comparison lower-cased, as csv_to_race_page_html.py has it
filter_skyline_lowered(indiv_dicts) ==
    SelectSeq(indiv_dicts,
              LAMBDA r : lower(strip(safe_get(r, W_Team, <<>>))) = ann_arbor_skyline)

\* [r for r in indiv_dicts if safe_get(r, "Team").strip() == SKYLINE_TEAM_NAME]
filter_skyline(indiv_dicts) ==
    SelectSeq(indiv_dicts, LAMBDA r : strip(safe_get(r, W_Team, <<>>)) = SKYLINE_TEAM_NAME)

Skipped(why) == [kind |-> "skipped", reason |-> why]

Raised(exc) == [kind |-> "raised", reason |-> exc]

\* what the loop body of meet_builder.py / home_builder.py makes of the
\* individual block, once the header lines are found
individual_block(lines, indiv_header_idx, file) ==
    LET indiv_block_lines ==
            SelectSeq(SubSeq(lines, indiv_header_idx + 1, Len(lines)),
                      LAMBDA line : strip(line) # <<>>)
        indiv_rows == parse_csv_block(indiv_block_lines)
    IN IF Len(indiv_rows) < 2 THEN Skipped("no individual data rows")
       ELSE LET indiv_header == indiv_rows[1]
                indiv_dicts == build_dicts(indiv_header, Tail(indiv_rows))
                skyline == sort_by_place(filter_skyline(indiv_dicts))
            IN [kind |-> "generated",
                meet_name |-> strip(lines[1]),
                meet_date |-> strip(lines[2]),
                individual |-> indiv_dicts,
                runners |-> skyline,
                placements |-> [i \in DOMAIN skyline |->
                                  ordinal(file, safe_get(skyline[i], W_Place, <<>>))]]

\* meet_builder.py, the body of the loop over the CSV files (lines 90-227)
meet_builder_file(lines) ==
    IF Len(lines) < MIN_LINES THEN Skipped("not enough lines")
    ELSE LET team_header_idx ==
                 find_line_index_startswith(lines, W_Place \o <<",">> \o W_Team \o <<",", "S", "c", "o", "r", "e">>)
             indiv_header_idx ==
                 find_line_index_startswith(lines, W_Place \o <<",">> \o W_Grade \o <<",">> \o W_Name \o <<",">>)
         IN IF team_header_idx = -1 \/ indiv_header_idx = -1
            THEN Skipped("required headers not found")
            ELSE individual_block(lines, indiv_header_idx, "meet_builder")

\* home_builder.py, the body of the loop over the CSV files (lines 115-194),
\* but for the assignment to recent_races
home_builder_file(lines) ==
    IF Len(lines) < MIN_LINES THEN Skipped("not enough lines")
    ELSE LET team_header_idx == find_line_index_contains(lines, W_Place \o <<",">> \o W_Team)
             indiv_header_idx ==
                 find_line_index_contains(lines, W_Place \o <<",">> \o W_Grade \o <<",">> \o W_Name)
         IN IF team_header_idx = -1 \/ indiv_header_idx = -1
            THEN Skipped("required headers not found")
            ELSE individual_block(lines, indiv_header_idx, "home_builder")

(***************************************************************************)
(* csv_to_race_page_html.py.                                               *)
(***************************************************************************)
\* 1-based position of the first blank row at or after `from`, else Len + 1
first_blank_from(rows, from) ==
    IF \E i \in from..Len(rows) : blank_row(rows[i])
    THEN CHOOSE i \in from..Len(rows) :
             blank_row(rows[i]) /\ \A j \in from..(i - 1) : ~blank_row(rows[j])
    ELSE Len(rows) + 1

\* the position `i` after the team-results loop (lines 76-86), 1-based: one
\* past the blank row that ends the loop, or past the end
after_team_results(rows) == Min(first_blank_from(rows, 5) + 1, Len(rows) + 1)

\* lines 90-91: step over the individual-results header when it is there
individual_start(rows) ==
    LET i == after_team_results(rows)
    IN IF i <= Len(rows) /\ Len(rows[i]) >= INDIVIDUAL_COLUMNS /\ strip(rows[i][1]) = W_Place
       THEN i + 1 ELSE i

individual_result(row) ==
    [place |-> strip(row[1]), grade |-> strip(row[2]), name |-> strip(row[3]),
     athlete_link |-> strip(row[4]), time |-> strip(row[5]), team |-> strip(row[6]),
     team_link |-> strip(row[7]), profile_pic |-> strip(row[8])]

\* lines 93-111: blank rows and rows of fewer than 8 cells are skipped
individual_results(rows) ==
    LET kept == SelectSeq(SubSeq(rows, individual_start(rows), Len(rows)),
                          LAMBDA row : ~blank_row(row) /\ Len(row) >= INDIVIDUAL_COLUMNS)
    IN [i \in DOMAIN kept |-> individual_result(kept[i])]

\* build_race_page_html lines 157-158: the Skyline rows, or every row when
\* none matches
race_page_runners(individual) ==
    LET skyline == SelectSeq(individual, LAMBDA r : lower(strip(r.team)) = ann_arbor_skyline)
    IN IF skyline # <<>> THEN skyline ELSE individual

\* csv_to_race_page: parse_custom_meet_csv, then build_race_page_html
csv_to_race_page(lines) ==
    LET rows == csv_reader(lines)
    IN IF Len(rows) < MIN_ROWS THEN Raised("ValueError")
       ELSE IF \E k \in 1..4 : rows[k] = <<>> THEN Raised("IndexError")
       ELSE LET runners == race_page_runners(individual_results(rows))
            IN [kind |-> "generated",
                meet_name |-> strip(rows[1][1]),
                meet_date |-> strip(rows[2][1]),
                individual |-> individual_results(rows),
                runners |-> runners,
                placements |-> [i \in DOMAIN runners |-> ordinal_race_page(runners[i].place)]]

(***************************************************************************)
(* athlete_builder.py: parse_athlete_csv and main.                         *)
(***************************************************************************)
W_meet_url == <<"m", "e", "e", "t", " ", "u", "r", "l">>
W_overall_place == <<"o", "v", "e", "r", "a", "l", "l", " ", "p", "l", "a", "c", "e">>
W_MeetURL == <<"M", "e", "e", "t", " ", "U", "R", "L">>
W_OverallPlace == <<"O", "v", "e", "r", "a", "l", "l", " ", "P", "l", "a", "c", "e">>
W_Meet == <<"M", "e", "e", "t">>
W_Date == <<"D", "a", "t", "e">>

strip_cells(r) == [i \in DOMAIN r |-> strip(r[i])]

\* the test of find_header_index on one row
is_header_row(r) ==
    /\ r # <<>>
    /\ contains(lower(join(strip_cells(r), ",")), W_meet_url)
    /\ contains(lower(join(strip_cells(r), ",")), W_overall_place)

\* find_header_index returning the last matching row
find_header_index_last(rows) ==
    IF \E i \in DOMAIN rows : is_header_row(rows[i])
    THEN (CHOOSE i \in DOMAIN rows :
              is_header_row(rows[i]) /\ \A j \in (i + 1)..Len(rows) : ~is_header_row(rows[j])) - 1
    ELSE -1

\* find_header_index: 0-based index of the first matching row, else -1
find_header_index(rows) ==
    IF \E i \in DOMAIN rows : is_header_row(rows[i])
    THEN (CHOOSE i \in DOMAIN rows :
              is_header_row(rows[i]) /\ \A j \in 1..(i - 1) : ~is_header_row(rows[j])) - 1
    ELSE -1

\* lines 131-139: the non-blank data rows as dicts, short rows padded
athlete_dict_rows(header, data_rows) ==
    LET header_keys == strip_cells(header)
        kept == SelectSeq(data_rows, LAMBDA r : ~blank_row(r))
    IN [i \in DOMAIN kept |-> dict_zip(header_keys, pad_row(kept[i], Len(header_keys)))]

is_season_row(dr) ==
    LET overall_place == strip(safe_get(dr, W_OverallPlace, <<>>))
    IN isdigit(overall_place) /\ Len(overall_place) = 4 /\ strip(safe_get(dr, W_Grade, <<>>)) # <<>>

season_record(dr) ==
    [year |-> strip(safe_get(dr, W_OverallPlace, <<>>)),
     grade |-> strip(safe_get(dr, W_Grade, <<>>)),
     sr |-> strip(safe_get(dr, W_Time, <<>>))]

\* the race test without the `continue` of the season branch before it
is_race_row_after_no_continue(dr) == strip(safe_get(dr, W_Meet, <<>>)) # <<>>

is_race_row(dr) == ~is_season_row(dr) /\ strip(safe_get(dr, W_Meet, <<>>)) # <<>>

race_record(dr) ==
    [grade |-> strip(safe_get(dr, W_Grade, <<>>)),
     meet |-> strip(safe_get(dr, W_Meet, <<>>)),
     url |-> IF strip(safe_get(dr, W_MeetURL, <<>>)) # <<>>
             THEN strip(safe_get(dr, W_MeetURL, <<>>)) ELSE <<"#">>,
     time |-> strip(safe_get(dr, W_Time, <<>>)),
     place |-> strip(safe_get(dr, W_OverallPlace, <<>>))]

\* most_recent_grade without the sort: the grade of the last season record
most_recent_grade_unsorted(season_records) ==
    IF season_records = <<>> THEN <<>> ELSE <<season_records[Len(season_records)].grade>>

\* lines 171-178: None (the empty sequence) or the one grade of the last
\* record of the stable sort by int(year)
most_recent_grade_of(season_records) ==
    IF season_records = <<>> THEN <<>>
    ELSE LET order == stable_order([i \in DOMAIN season_records |->
                                       IF isdigit(season_records[i].year)
                                       THEN int(season_records[i].year) ELSE -1])
         IN <<season_records[order[Len(order)]].grade>>

\* parse_athlete_csv without lines 181-184
backfill_skipped(races, most_recent_grade) == races

\* lines 181-184
backfill(races, most_recent_grade) ==
    IF most_recent_grade = <<>> \/ most_recent_grade[1] = <<>> THEN races
    ELSE [i \in DOMAIN races |->
             IF races[i].grade = <<>>
             THEN [races[i] EXCEPT !.grade = most_recent_grade[1]] ELSE races[i]]

first_cell(rows, k) == IF Len(rows) >= k /\ rows[k] # <<>> THEN strip(rows[k][1]) ELSE <<>>

\* parse_athlete_csv; header_idx and dict_rows are kept beside the returned
\* record so that the rows taken as data can be read off
parse_athlete_csv(lines) ==
    LET rows == csv_reader(lines)
        header_idx == find_header_index(rows)
    IN IF header_idx = -1 THEN Raised("ValueError")
       ELSE LET dict_rows ==
                    athlete_dict_rows(rows[header_idx + 1], SubSeq(rows, header_idx + 2, Len(rows)))
                seasons == SelectSeq(dict_rows, is_season_row)
                season_records == [i \in DOMAIN seasons |-> season_record(seasons[i])]
                raced == SelectSeq(dict_rows, is_race_row)
                races == [i \in DOMAIN raced |-> race_record(raced[i])]
            IN [kind |-> "generated",
                name |-> first_cell(rows, 1),
                athlete_id |-> first_cell(rows, 2),
                header_idx |-> header_idx,
                dict_rows |-> dict_rows,
                season_records |-> season_records,
                races |-> backfill(races, most_recent_grade_of(season_records)),
                most_recent_grade |-> most_recent_grade_of(season_records)]

\* secs < best_time on the values parse_time_to_seconds returns
frac_less(f, g) ==
    \E i \in 1..Len(g) :
        /\ \A j \in 1..(i - 1) : j <= Len(f) /\ f[j] = g[j]
        /\ i > Len(f) \/ DigitVal(f[i]) < DigitVal(g[i])

secs_less(a, b) == a.whole < b.whole \/ (a.whole = b.whole /\ frac_less(a.frac, b.frac))

\* the loop of build_auto_bio with `<=` for `<` in the best-place test
RECURSIVE bio_scan_last_tie(_, _)
bio_scan_last_tie(races, n) ==
    IF n = 0
    THEN [best_time |-> <<>>, best_time_str |-> <<>>, best_place |-> <<>>,
          best_place_str |-> <<>>, best_place_meet |-> <<>>]
    ELSE LET b == bio_scan_last_tie(races, n - 1)
             r == races[n]
             p == rstrip_dot(strip(r.place))
             better_place == isdigit(p) /\ (b.best_place = <<>> \/ int(p) <= b.best_place[1])
             secs == parse_time_to_seconds(r.time)
             better_time == secs # None /\ (b.best_time = <<>> \/ secs_less(secs, b.best_time[1]))
         IN [best_place |-> IF better_place THEN <<int(p)>> ELSE b.best_place,
             best_place_str |->
                 IF better_place THEN <<ordinal_athlete_builder(p)>> ELSE b.best_place_str,
             best_place_meet |-> IF better_place THEN <<r.meet>> ELSE b.best_place_meet,
             best_time |-> IF better_time THEN <<secs>> ELSE b.best_time,
             best_time_str |-> IF better_time THEN <<r.time>> ELSE b.best_time_str]

\* build_auto_bio, the loop over the races: the five best_* variables after
\* the first n races; a variable that is None is the empty sequence
RECURSIVE bio_scan(_, _)
bio_scan(races, n) ==
    IF n = 0
    THEN [best_time |-> <<>>, best_time_str |-> <<>>, best_place |-> <<>>,
          best_place_str |-> <<>>, best_place_meet |-> <<>>]
    ELSE LET b == bio_scan(races, n - 1)
             r == races[n]
             p == rstrip_dot(strip(r.place))
             better_place == isdigit(p) /\ (b.best_place = <<>> \/ int(p) < b.best_place[1])
             secs == parse_time_to_seconds(r.time)
             better_time == secs # None /\ (b.best_time = <<>> \/ secs_less(secs, b.best_time[1]))
         IN [best_place |-> IF better_place THEN <<int(p)>> ELSE b.best_place,
             best_place_str |->
                 IF better_place THEN <<ordinal_athlete_builder(p)>> ELSE b.best_place_str,
             best_place_meet |-> IF better_place THEN <<r.meet>> ELSE b.best_place_meet,
             best_time |-> IF better_time THEN <<secs>> ELSE b.best_time,
             best_time_str |-> IF better_time THEN <<r.time>> ELSE b.best_time_str]

\* a value that is neither None nor the empty string
truthy(v) == v # <<>> /\ v[1] # <<>>

\* build_auto_bio: the sentences of the paragraph, in order, with what each
\* one names
build_auto_bio(data) ==
    LET b == bio_scan(data.races, Len(data.races))
    IN <<[sentence |-> "identity", names |-> data.name,
          grade |-> IF truthy(data.most_recent_grade)
                    THEN data.most_recent_grade[1] ELSE <<"?">>]>>
       \o (IF truthy(b.best_place_str) /\ truthy(b.best_place_meet)
           THEN <<[sentence |-> "best_placement", names |-> b.best_place_str[1],
                   at |-> b.best_place_meet[1]]>>
           ELSE <<>>)
       \o (IF truthy(b.best_time_str)
           THEN <<[sentence |-> "best_time", names |-> b.best_time_str[1]]>>
           ELSE <<>>)
       \o <<[sentence |-> "closing"]>>

W_Other == <<"O", "t", "h", "e", "r">>

GRADE_SENTINEL == -999

\* build_grade_tables: g of a race
grade_label(r) == IF strip(r.grade) # <<>> THEN strip(r.grade) ELSE W_Other

\* by_grade.keys(): the labels in the order setdefault first saw them
RECURSIVE by_grade_keys(_)
by_grade_keys(races) ==
    IF races = <<>> THEN <<>>
    ELSE LET front == by_grade_keys(SubSeq(races, 1, Len(races) - 1))
             g == grade_label(races[Len(races)])
         IN IF \E i \in DOMAIN front : front[i] = g THEN front ELSE Append(front, g)

grade_sort_key(g) == IF isdigit(g) THEN int(g) ELSE GRADE_SENTINEL

\* sorted(by_grade.keys(), key=grade_sort_key, reverse=True): a stable sort,
\* descending, labels of equal key in their first-seen order
grade_keys(races) ==
    LET keys == by_grade_keys(races)
        order == stable_order([i \in DOMAIN keys |-> 0 - grade_sort_key(keys[i])])
    IN [i \in DOMAIN keys |-> keys[order[i]]]

\* place_key of build_grade_tables, without the rstrip(".")
grade_place_key_no_rstrip(r) ==
    LET p == strip(r.place)
    IN IF isdigit(p) THEN int(p) ELSE PLACE_SENTINEL

\* place_key of build_grade_tables
grade_place_key(r) ==
    LET p == rstrip_dot(strip(r.place))
    IN IF isdigit(p) THEN int(p) ELSE PLACE_SENTINEL

\* rows = sorted(by_grade[g], key=place_key)
grade_rows(races, g) ==
    LET group == SelectSeq(races, LAMBDA r : grade_label(r) = g)
        order == stable_order([i \in DOMAIN group |-> grade_place_key(group[i])])
    IN [i \in DOMAIN group |-> group[order[i]]]

\* build_grade_tables: one table per label, in the order of grade_keys
build_grade_tables(races) ==
    [t \in DOMAIN grade_keys(races) |->
        [g |-> grade_keys(races)[t],
         caption |-> IF isdigit(grade_keys(races)[t])
                     THEN grade_keys(races)[t] \o <<"t", "h", " ">> \o W_Grade
                     ELSE grade_keys(races)[t],
         rows |-> grade_rows(races, grade_keys(races)[t])]]

\* generate_runner_page: the two derived parts of the page
generate_runner_page(data) ==
    [bio |-> build_auto_bio(data), tables |-> build_grade_tables(data.races)]

\* main, the body of the loop over the CSV files: any exception is caught
\* and reported, and the loop goes on
athlete_main_file(lines) ==
    LET data == parse_athlete_csv(lines)
    IN IF data.kind = "raised"
       THEN [kind |-> "error", reason |-> data.reason]
       ELSE [kind |-> "generated",
             name |-> data.name,
             athlete_id |-> data.athlete_id,
             header_idx |-> data.header_idx,
             dict_rows |-> data.dict_rows,
             season_records |-> data.season_records,
             races |-> data.races,
             most_recent_grade |-> data.most_recent_grade,
             html |-> generate_runner_page(data)]

(***************************************************************************)
(* The loops over the CSV files of a directory.                            *)
(***************************************************************************)
HelperIdle == arg = <<>> /\ pc = "batch" /\ ret = <<>>

HelperUnchanged == UNCHANGED <<arg, pc, ret>>

\* dict.__setitem__ replaced by setdefault: the first value of a key stays
dict_set_first_wins(d, key, value) ==
    IF \E i \in DOMAIN d : d[i].key = key THEN d
    ELSE Append(d, [key |-> key, value |-> value])

\* recent_races[key] = value on a dict kept in insertion order
dict_set(d, key, value) ==
    IF \E i \in DOMAIN d : d[i].key = key
    THEN [i \in DOMAIN d |-> IF d[i].key = key THEN [key |-> key, value |-> value] ELSE d[i]]
    ELSE Append(d, [key |-> key, value |-> value])

\* the name os.listdir gave the k-th file, without its ".csv"
file_base(k) == <<"f", Digits[k + 1]>>

race_html_of(k) ==
    <<"m", "e", "e", "t", "s", "/">> \o file_base(k)
        \o <<"_", "r", "a", "c", "e", "_", "p", "a", "g", "e", ".", "h", "t", "m", "l">>

(***************************************************************************)
(* home_builder.py after the loop: the home page.                          *)
(***************************************************************************)
Weekdays == <<<<"m", "o", "n">>, <<"t", "u", "e">>, <<"w", "e", "d">>, <<"t", "h", "u">>,
              <<"f", "r", "i">>, <<"s", "a", "t">>, <<"s", "u", "n">>>>

Months == <<<<"j", "a", "n">>, <<"f", "e", "b">>, <<"m", "a", "r">>, <<"a", "p", "r">>,
            <<"m", "a", "y">>, <<"j", "u", "n">>, <<"j", "u", "l">>, <<"a", "u", "g">>,
            <<"s", "e", "p">>, <<"o", "c", "t">>, <<"n", "o", "v">>, <<"d", "e", "c">>>>

\* the pieces of a text between its runs of whitespace (the \s+ that a space
\* of the strptime format stands for)
RECURSIVE words(_)
words(s) ==
    LET t == lstrip(s)
        n == IF \E i \in DOMAIN t : IsSpace(t[i])
             THEN (CHOOSE i \in DOMAIN t : IsSpace(t[i]) /\ \A j \in 1..(i - 1) : ~IsSpace(t[j])) - 1
             ELSE Len(t)
    IN IF t = <<>> THEN <<>> ELSE <<SubSeq(t, 1, n)>> \o words(SubSeq(t, n + 1, Len(t)))

is_leap(year) == year % 4 = 0 /\ (year % 100 # 0 \/ year % 400 = 0)

days_in_month(year, month) ==
    IF month = 2 THEN (IF is_leap(year) THEN 29 ELSE 28)
    ELSE IF month \in {4, 6, 9, 11} THEN 30 ELSE 31

\* %d: one or two digits that read 1..31, "0" and "00" excluded
matches_day(w) == Len(w) \in {1, 2} /\ isdigit(w) /\ int(w) \in 1..31

\* %Y: four digits
matches_year(w) == Len(w) = 4 /\ isdigit(w)

\* datetime.strptime(text, "%a %b %d %Y") raises ValueError: the text does
\* not match the format, or the day is not a day of that month
strptime_raises(text) ==
    LET w == words(text)
    IN \/ Len(w) # 4
       \/ text # <<>> /\ (IsSpace(text[1]) \/ IsSpace(text[Len(text)]))
       \/ lower(w[1]) \notin Range(Weekdays)
       \/ lower(w[2]) \notin Range(Months)
       \/ ~matches_day(w[3])
       \/ ~matches_year(w[4])
       \/ int(w[4]) < 1
       \/ int(w[3]) > days_in_month(int(w[4]), IndexIn(lower(w[2]), Months))

\* the datetime strptime returns, as the number yyyymmdd that orders as it does
strptime(text) ==
    LET w == words(text)
    IN int(w[4]) * 10000 + IndexIn(lower(w[2]), Months) * 100 + int(w[3])

\* sorted(recent_races, key=...): the keys in a stable sort by parsed date
sorted_keys(races) ==
    LET order == stable_order([i \in DOMAIN races |-> strptime(races[i].value.meet_date)])
    IN [i \in DOMAIN races |-> races[order[i]].key]

dict_get(d, key) == d[CHOOSE i \in DOMAIN d : d[i].key = key].value

\* str.replace(" ", "-")
replace_space(s) == [i \in DOMAIN s |-> IF s[i] = " " THEN "-" ELSE s[i]]

\* f"{slug}.html" with slug = name.lower().replace(" ", "-")
roster_link(name) == replace_space(lower(name)) \o <<".", "h", "t", "m", "l">>

\* the roster loop visiting the meets in the order of sorted_keys
roster_visit_sorted(races) ==
    [i \in DOMAIN races |-> [key |-> sorted_keys(races)[i],
                             value |-> dict_get(races, sorted_keys(races)[i])]]

\* for meet_name, (...) in recent_races.items(): the order of the dict
roster_visit(races) == races

\* if name not in roster: roster[name] = ...
roster_add(roster, name) ==
    IF \E i \in DOMAIN roster : roster[i].key = name THEN roster
    ELSE Append(roster, [key |-> name, value |-> roster_link(name)])

RECURSIVE roster_of_rows(_, _)
roster_of_rows(roster, skyline) ==
    IF skyline = <<>> THEN roster
    ELSE roster_of_rows(roster_add(roster, safe_get(skyline[1], W_Name, <<>>)), Tail(skyline))

\* the two nested roster loops over the first n meets visited
RECURSIVE roster_of_meets(_, _)
roster_of_meets(visited, n) ==
    IF n = 0 THEN <<>>
    ELSE roster_of_rows(roster_of_meets(visited, n - 1), visited[n].value.skyline)

\* the article of one meet: name, date, the first four runners, the link
article(races, meet) ==
    LET race_info == dict_get(races, meet)
    IN [meet |-> meet,
        meet_date |-> race_info.meet_date,
        top |-> SubSeq(race_info.skyline, 1, Min(4, Len(race_info.skyline))),
        race_html_file |-> race_info.race_html]

NotWritten == [written |-> FALSE, articles |-> <<>>, roster |-> <<>>]

\* lines 196-309, run once the loop over the files has ended: strptime of
\* any stored date raising ends the run before anything is written
RenderHome ==
    /\ script = "home_builder"
    /\ raised = "none"
    /\ next_file > Len(csv_files)
    /\ ~index_html.written
    /\ IF \E i \in DOMAIN recent_races : strptime_raises(recent_races[i].value.meet_date)
       THEN /\ raised' = "ValueError"
            /\ UNCHANGED index_html
       ELSE /\ index_html' =
                  [written |-> TRUE,
                   articles |-> [i \in DOMAIN recent_races |->
                                    article(recent_races, sorted_keys(recent_races)[i])],
                   roster |-> roster_of_meets(roster_visit(recent_races), Len(recent_races))]
            /\ UNCHANGED raised
    /\ UNCHANGED <<script, csv_files, next_file, records, recent_races>>
    /\ HelperUnchanged

ProcessMeetBuilder ==
    /\ script = "meet_builder"
    /\ raised = "none"
    /\ next_file <= Len(csv_files)
    /\ records' = Append(records, meet_builder_file(csv_files[next_file]))
    /\ next_file' = next_file + 1
    /\ UNCHANGED <<script, csv_files, raised, recent_races, index_html>>
    /\ HelperUnchanged

ProcessHomeBuilder ==
    /\ script = "home_builder"
    /\ raised = "none"
    /\ next_file <= Len(csv_files)
    /\ LET done == home_builder_file(csv_files[next_file])
       IN /\ records' = Append(records, done)
          /\ recent_races' =
                IF done.kind = "generated"
                THEN dict_set(recent_races, done.meet_name,
                              [meet_date |-> done.meet_date, skyline |-> done.runners,
                               race_html |-> race_html_of(next_file)])
                ELSE recent_races
    /\ next_file' = next_file + 1
    /\ UNCHANGED <<script, csv_files, raised, index_html>>
    /\ HelperUnchanged

\* process_meet_files: nothing catches what csv_to_race_page raises
ProcessRacePage ==
    /\ script = "race_page"
    /\ raised = "none"
    /\ next_file <= Len(csv_files)
    /\ LET done == csv_to_race_page(csv_files[next_file])
       IN /\ records' = Append(records, done)
          /\ raised' = IF done.kind = "raised" THEN done.reason ELSE "none"
          /\ next_file' = IF done.kind = "raised" THEN next_file ELSE next_file + 1
    /\ UNCHANGED <<script, csv_files, recent_races, index_html>>
    /\ HelperUnchanged

ProcessAthlete ==
    /\ script = "athlete_builder"
    /\ raised = "none"
    /\ next_file <= Len(csv_files)
    /\ records' = Append(records, athlete_main_file(csv_files[next_file]))
    /\ next_file' = next_file + 1
    /\ UNCHANGED <<script, csv_files, raised, recent_races, index_html>>
    /\ HelperUnchanged

(***************************************************************************)
(* The CSV files of the model.                                             *)
(***************************************************************************)
SeqsUpTo(S, n) == UNION {[1..k -> S] : k \in 0..n}

W_Huron == <<"H", "u", "r", "o", "n">>

L_team_header == W_Place \o <<",">> \o W_Team \o <<",", "S", "c", "o", "r", "e">>

L_team_row == <<"1", ",">> \o W_Huron \o <<",", "3", "0">>

IndivHeader ==
    <<W_Place, W_Grade, W_Name, W_AthleteLink, W_Time, W_Team, W_TeamLink, W_ProfilePic>>

\* the four metadata lines: name, date, results URL, summary
Meta(name) == <<name, <<"D", "1">>, <<"u">>, <<"s">>>>

ResultRow(place, name, team) ==
    <<place, <<"9">>, name, <<"a">>, <<"1", "7", ":", "0", "0">>, team, <<"t">>, <<"p">>>>

\* a meet file in the layout both dialects expect
MeetFile(name, rows) ==
    Meta(name) \o <<L_team_header, L_team_row, <<>>, join(IndivHeader, ",")>>
        \o [i \in DOMAIN rows |-> join(rows[i], ",")]

GoodFile ==
    MeetFile(<<"M", "1">>, <<ResultRow(<<"2", ".">>, <<"A", "l">>, SKYLINE_TEAM_NAME),
                             ResultRow(<<"1", ".">>, <<"B", "o">>, W_Huron)>>)

TooShortFile == <<<<"M", "2">>, <<"D", "1">>, <<"u">>>>

NoIndivHeaderFile ==
    Meta(<<"M", "2">>)
        \o <<L_team_header, L_team_row, <<>>,
             join(ResultRow(<<"1", ".">>, <<"B", "o">>, W_Huron), ",")>>

NoTeamHeaderFile ==
    Meta(<<"M", "1">>)
        \o <<<<>>, join(IndivHeader, ","),
             join(ResultRow(<<"4">>, <<"C", "y">>, SKYLINE_TEAM_NAME), ",")>>

NoDataRowsFile == MeetFile(<<"M", "2">>, <<>>)

ShortRowFile ==
    MeetFile(<<"M", "2">>, <<SubSeq(ResultRow(<<"3">>, <<"C", "y">>, SKYLINE_TEAM_NAME), 1, 6)>>)

BlankFirstLineFile == <<<<>>>> \o Tail(GoodFile)

MeetFilePool ==
    {GoodFile, TooShortFile, NoIndivHeaderFile, NoTeamHeaderFile, NoDataRowsFile,
     ShortRowFile, BlankFirstLineFile}

AthleteHeader == <<W_Name, W_OverallPlace, W_Grade, W_Time, W_Date, W_Meet, W_MeetURL>>

A_name == <<<<"A", "l">>>>
A_id == <<<<"4", "2">>>>
A_season == <<<<>>, <<"2", "0", "2", "3">>, <<"1", "1">>, <<"1", "7", ":", "0", "0">>>>
A_race == <<<<>>, <<"5", ".">>, <<>>, <<"1", "6", ":", "3", "4">>, <<>>, <<"I", "n", "v">>, <<"u">>>>

AthleteFile(rows) == [i \in DOMAIN rows |-> join(rows[i], ",")]

AthleteFilePool ==
    {AthleteFile(<<A_name, A_id, <<>>, AthleteHeader, A_season, A_race>>),
     AthleteFile(<<A_name, A_id, A_season, A_race>>),
     <<>>}

(***************************************************************************)
(* SpecBatch: each script run over a batch of well-formed and malformed    *)
(* files.                                                                  *)
(***************************************************************************)
BatchStart ==
    /\ next_file = 1
    /\ records = <<>>
    /\ raised = "none"
    /\ recent_races = <<>>
    /\ index_html = NotWritten
    /\ HelperIdle

InitBatch ==
    /\ \/ script \in {"meet_builder", "home_builder", "race_page"}
          /\ csv_files \in SeqsUpTo(MeetFilePool, MaxFiles)
       \/ script = "athlete_builder"
          /\ csv_files \in SeqsUpTo(AthleteFilePool, MaxFiles)
    /\ BatchStart

NextBatch == ProcessMeetBuilder \/ ProcessHomeBuilder \/ ProcessRacePage \/ ProcessAthlete

SpecBatch == InitBatch /\ [][NextBatch]_vars

(***************************************************************************)
(* SpecFilter: each meet script on one meet file whose rows vary in team.  *)
(***************************************************************************)
FilterRowPool ==
    {ResultRow(<<"2">>, <<"A", "l">>, team) :
        team \in {SKYLINE_TEAM_NAME, W_Huron, ann_arbor_skyline,
                  <<" ">> \o SKYLINE_TEAM_NAME \o <<" ">>}}
        \cup {ResultRow(<<"1", ".">>, <<"B", "o">>, team) : team \in {SKYLINE_TEAM_NAME, W_Huron}}

InitFilter ==
    /\ script \in {"meet_builder", "home_builder", "race_page"}
    /\ \E rows \in SeqsUpTo(FilterRowPool, MaxRows) : csv_files = <<MeetFile(<<"M", "1">>, rows)>>
    /\ BatchStart

NextFilter == ProcessMeetBuilder \/ ProcessHomeBuilder \/ ProcessRacePage

SpecFilter == InitFilter /\ [][NextFilter]_vars

(***************************************************************************)
(* SpecSort: meet_builder.py and home_builder.py on one meet file whose    *)
(* rows are all Skyline's and vary in place; the k-th row is named rk.     *)
(***************************************************************************)
W_abc == <<"a", "b", "c">>

SortPlaces ==
    {<<"3">>, <<"1", ".">>, W_abc, <<"2">>, <<"2", ".">>, <<"1", "0", "0", "0", "0", "0", "0">>}

RowName(k) == <<"r", Digits[k + 1]>>

InitSort ==
    /\ script \in {"meet_builder", "home_builder"}
    /\ \E places \in SeqsUpTo(SortPlaces, MaxSortRows) :
          csv_files = <<MeetFile(<<"M", "1">>,
                                 [k \in DOMAIN places |->
                                     ResultRow(places[k], RowName(k), SKYLINE_TEAM_NAME)])>>
    /\ BatchStart

NextSort == ProcessMeetBuilder \/ ProcessHomeBuilder

SpecSort == InitSort /\ [][NextSort]_vars

(***************************************************************************)
(* SpecAthlete: athlete_builder.py on one athlete file made of rows of     *)
(* every kind, the header row anywhere, repeated or missing.               *)
(***************************************************************************)
A_header_odd ==
    <<<<" ", "N", "A", "M", "E">>, <<"o", "v", "e", "r", "a", "l", "l", " ", "p", "l", "a", "c", "e", " ">>,
      <<"M", "E", "E", "T">>, <<" ", "M", "e", "e", "t", " ", "U", "r", "l">>>>

A_partial == <<W_MeetURL, W_Meet>>

A_blank_cells == <<<<>>, <<" ">>>>

AthleteRowPool ==
    {<<>>, A_name, AthleteHeader, A_header_odd, A_partial, A_season, A_race, A_blank_cells}

InitAthlete ==
    /\ script = "athlete_builder"
    /\ \E rows \in SeqsUpTo(AthleteRowPool, MaxAthleteRows) : csv_files = <<AthleteFile(rows)>>
    /\ BatchStart

SpecAthlete == InitAthlete /\ [][ProcessAthlete]_vars

(***************************************************************************)
(* SpecRaces: athlete_builder.py on one athlete file whose data rows vary  *)
(* in Overall Place, Grade, Time and Meet.                                 *)
(***************************************************************************)
W_Inv == <<"I", "n", "v">>
W_Dual == <<"D", "u", "a", "l">>
W_JV == <<"J", "V">>
W_DNF == <<"D", "N", "F">>

\* a data row under AthleteHeader
DataRow(overall_place, grade, time, meet) ==
    <<<<>>, overall_place, grade, time, <<>>, meet, IF meet = <<>> THEN <<>> ELSE <<"u">>>>

Year(n) == <<"2", "0", "2", Digits[n + 1]>>

DataRowPool ==
    {DataRow(Year(3), <<"1", "1">>, <<"1", "7", ":", "0", "0">>, <<>>),
     DataRow(Year(4), <<"1", "2">>, <<"1", "6", ":", "4", "0">>, W_Inv),
     DataRow(Year(4), <<"1", "0">>, <<>>, <<>>),
     DataRow(Year(3), <<>>, <<"1", "6", ":", "3", "4", ".", "8", "P", "R">>, W_Inv),
     DataRow(<<"5", ".">>, <<"1", "1">>, <<"1", "5", ":", "5", "1">>, W_Inv),
     DataRow(<<"5">>, <<>>, <<"1", "5", ":", "5", "1", ".", "0">>, W_Dual),
     DataRow(W_DNF, <<" ", "1", "1">>, <<>>, W_Dual),
     DataRow(<<"1", "0", "0", "0", "0", "0", "0">>, <<"1", "1">>, <<"b", "o", "g", "u", "s">>, W_Inv),
     DataRow(W_abc, W_JV, <<"1", "5", ":", "5", ".", "5">>, W_Inv),
     DataRow(<<"1", "2">>, <<"1", "1">>, <<"1", "4", ":", "0", "0">>, <<>>),
     DataRow(Year(3), <<" ">>, <<>>, <<>>)}

InitRaces ==
    /\ script = "athlete_builder"
    /\ \E rows \in SeqsUpTo(DataRowPool, MaxRaceRows) :
          csv_files = <<AthleteFile(<<A_name, A_id, AthleteHeader>> \o rows)>>
    /\ BatchStart

SpecRaces == InitRaces /\ [][ProcessAthlete]_vars

(***************************************************************************)
(* SpecHome: home_builder.py run over meet files that vary in name, date   *)
(* and runners, then the home page.                                        *)
(***************************************************************************)
D_Sat_Sep_06_2025 == <<"S", "a", "t", " ", "S", "e", "p", " ", "0", "6", " ", "2", "0", "2", "5">>
D_Fri_Aug_29_2025 == <<"F", "r", "i", " ", "A", "u", "g", " ", "2", "9", " ", "2", "0", "2", "5">>
D_sat_oct_4_2025 == <<"s", "a", "t", " ", " ", "O", "C", "T", " ", "4", " ", "2", "0", "2", "5">>
D_9_6_2025 == <<"9", "/", "6", "/", "2", "0", "2", "5">>

N_Al == <<"A", "l">>
N_Cy == <<"C", "y">>
N_Bo_Di == <<"B", "o", " ", "D", "i">>

\* a meet file in the expected layout with the given name and date lines
HomeFile(name, date, rows) ==
    <<name, date, <<"u">>, <<"s">>, L_team_header, L_team_row, <<>>, join(IndivHeader, ",")>>
        \o [i \in DOMAIN rows |-> join(rows[i], ",")]

HomeFilePool ==
    {HomeFile(<<"M", "1">>, D_Sat_Sep_06_2025,
              <<ResultRow(<<"2">>, N_Al, SKYLINE_TEAM_NAME), ResultRow(<<"1">>, N_Cy, W_Huron)>>),
     HomeFile(<<"M", "2">>, D_Fri_Aug_29_2025,
              <<ResultRow(<<"7">>, N_Al, SKYLINE_TEAM_NAME),
                ResultRow(<<"3">>, N_Cy, SKYLINE_TEAM_NAME)>>),
     HomeFile(<<" ", "M", "1">>, D_sat_oct_4_2025,
              <<ResultRow(<<"5">>, N_Bo_Di, SKYLINE_TEAM_NAME)>>),
     HomeFile(<<"M", "3">>, D_9_6_2025, <<ResultRow(<<"1">>, N_Al, SKYLINE_TEAM_NAME)>>),
     TooShortFile}

InitHome ==
    /\ script = "home_builder"
    /\ csv_files \in SeqsUpTo(HomeFilePool, MaxHomeFiles)
    /\ BatchStart

NextHome == ProcessHomeBuilder \/ RenderHome

SpecHome == InitHome /\ [][NextHome]_vars

(***************************************************************************)
(* Calls of the helper functions on arguments drawn from bounded sets.     *)
(***************************************************************************)
NoBatch ==
    /\ csv_files = <<>>
    /\ next_file = 1
    /\ records = <<>>
    /\ raised = "none"
    /\ recent_races = <<>>
    /\ index_html = NotWritten

BatchUnchanged ==
    UNCHANGED <<script, csv_files, next_file, records, raised, recent_races, index_html>>

W_DNF_dot == <<"D", "N", "F", ".">>

NonNumericPlaces ==
    {<<>>, W_abc, W_DNF_dot, <<" ">> \o W_abc \o <<" ">>, <<" ">>, <<".">>,
     <<"1", "a">>, <<"1", " ", ".">>}

\* the decimal numeral of n < 1000, written out digit by digit
Decimal(n) ==
    IF n < 10 THEN <<Digits[n + 1]>>
    ELSE IF n < 100 THEN <<Digits[(n \div 10) + 1], Digits[(n % 10) + 1]>>
    ELSE <<Digits[(n \div 100) + 1], Digits[((n \div 10) % 10) + 1], Digits[(n % 10) + 1]>>

PlaceTexts ==
    {Decimal(n) : n \in 0..MaxOrdinal}
        \cup {Decimal(n) \o <<".">> : n \in 0..MaxOrdinal}
        \cup {<<" ">> \o Decimal(n) \o <<".", ".", " ">> : n \in 0..MaxOrdinal}
        \cup NonNumericPlaces

InitOrdinal ==
    /\ script \in Scripts
    /\ NoBatch
    /\ arg \in PlaceTexts
    /\ pc = "call"
    /\ ret = <<>>

CallOrdinal ==
    /\ pc = "call"
    /\ ret' = ordinal(script, arg)
    /\ pc' = "return"
    /\ UNCHANGED arg
    /\ BatchUnchanged

SpecOrdinal == InitOrdinal /\ [][CallOrdinal]_vars

T_16_34_8_PR == <<"1", "6", ":", "3", "4", ".", "8", "P", "R">>
T_21_08_4 == <<"2", "1", ":", "0", "8", ".", "4">>
T_bogus == <<"b", "o", "g", "u", "s">>
T_17_55_6_SR == <<"1", "7", ":", "5", "5", ".", "6", " ", "S", "R">>

TimeAlphabet == {"1", "5", ":", ".", "p", "R", "*"}

TimeTexts ==
    SeqsUpTo(TimeAlphabet, MaxTimeLen) \cup {T_16_34_8_PR, T_21_08_4, T_bogus, T_17_55_6_SR}

InitTime ==
    /\ script = "athlete_builder"
    /\ NoBatch
    /\ arg \in TimeTexts
    /\ pc = "call"
    /\ ret = None

CallParseTime ==
    /\ pc = "call"
    /\ ret' = parse_time_to_seconds(arg)
    /\ pc' = "return"
    /\ UNCHANGED arg
    /\ BatchUnchanged

SpecTime == InitTime /\ [][CallParseTime]_vars


(***************************************************************************)
(* Claims about ordinal (SpecOrdinal).                                     *)
(***************************************************************************)
\* the suffix rule as the claim words it
ClaimSuffix(n) ==
    IF (n % 100) \in 10..20 THEN <<"t", "h">>
    ELSE IF n % 10 = 1 THEN <<"s", "t">>
    ELSE IF n % 10 = 2 THEN <<"n", "d">>
    ELSE IF n % 10 = 3 THEN <<"r", "d">>
    ELSE <<"t", "h">>

\* C7: for every integer n of the range, written with or without a trailing
\* ".", ordinal returns the decimal n followed by "th" when n mod 100 is in
\* 10..20, and otherwise by "st", "nd", "rd" for last digit 1, 2, 3 and "th"
\* for any other last digit; ordinal("7.") = "7th".  Holds for the ordinal of
\* every source file.
C7_OrdinalSuffix ==
    pc = "return" =>
        /\ \A n \in 0..MaxOrdinal :
              arg \in {Decimal(n), Decimal(n) \o <<".">>} => ret = Decimal(n) \o ClaimSuffix(n)
        /\ arg = <<"7", ".">> => ret = <<"7", "t", "h">>

C7_Witness ==
    /\ pc = "return"
    /\ script = "athlete_builder"
    /\ arg = <<"1", "3", ".">>
    /\ ret = <<"1", "3", "t", "h">>

\* C8: for every input that is not all digits after trimming whitespace and
\* stripping a trailing ".", every ordinal implementation returns the input
\* unchanged apart from trimming surrounding whitespace.
C8_NonNumericTrimmed ==
    (pc = "return" /\ ~isdigit(rstrip_dot(strip(arg)))) => ret = strip(arg)

(***************************************************************************)
(* Claims about parse_time_to_seconds (SpecTime).                          *)
(***************************************************************************)
\* what is left of the text once everything but digits, ":" and "." is dropped
ClaimRemainder(t) == SelectSeq(t, LAMBDA c : c \in Range(Digits) \cup {":", "."})

ClaimColons(s) == Cardinality({i \in DOMAIN s : s[i] = ":"})

ClaimColonAt(s) == CHOOSE i \in DOMAIN s : s[i] = ":"

ClaimDots(s) == Cardinality({i \in DOMAIN s : s[i] = "."})

ClaimMinutesText(t) == SubSeq(ClaimRemainder(t), 1, ClaimColonAt(ClaimRemainder(t)) - 1)

ClaimSecondsText(t) ==
    SubSeq(ClaimRemainder(t), ClaimColonAt(ClaimRemainder(t)) + 1, Len(ClaimRemainder(t)))

\* one colon, an integer before it, a decimal number after it
ClaimWellFormedTime(t) ==
    /\ ClaimColons(ClaimRemainder(t)) = 1
    /\ ClaimMinutesText(t) # <<>>
    /\ ClaimDots(ClaimMinutesText(t)) = 0
    /\ ClaimDots(ClaimSecondsText(t)) <= 1
    /\ Len(ClaimSecondsText(t)) > ClaimDots(ClaimSecondsText(t))

\* the value of a digit text, most significant digit first
RECURSIVE ClaimNumber(_)
ClaimNumber(s) ==
    IF s = <<>> THEN 0 ELSE ClaimNumber(SubSeq(s, 1, Len(s) - 1)) * 10 + DigitVal(s[Len(s)])

ClaimDotAt(s) == IF ClaimDots(s) = 0 THEN Len(s) + 1 ELSE CHOOSE i \in DOMAIN s : s[i] = "."

\* minutes*60 + seconds, whole seconds
ClaimWhole(t) ==
    ClaimNumber(ClaimMinutesText(t)) * 60
        + ClaimNumber(SubSeq(ClaimSecondsText(t), 1, ClaimDotAt(ClaimSecondsText(t)) - 1))

\* scaled by 10^k: the fraction digits of the seconds, read as a number
ClaimFracDigits(t) ==
    SubSeq(ClaimSecondsText(t), ClaimDotAt(ClaimSecondsText(t)) + 1, Len(ClaimSecondsText(t)))

\* the decimal fraction 0.f of a returned value, scaled to k digits (k >= Len(f))
RECURSIVE Scaled(_, _)
Scaled(f, k) == IF Len(f) >= k THEN ClaimNumber(f) ELSE Scaled(f \o <<"0">>, k)

\* C9: parse_time_to_seconds returns minutes*60 + seconds exactly when what is
\* left after dropping every character other than digits, ":" and "." (the
\* PR/SR/* annotations included) has exactly one colon with an integer before
\* it and a decimal number after it; in every other case it returns None.
\* "16:34.8PR" gives 994.8, "21:08.4" gives 1268.4, "bogus" and "" give None.
C9_TimeToSeconds ==
    pc = "return" =>
        /\ (ret # None) <=> ClaimWellFormedTime(arg)
        /\ ret # None =>
              /\ ret.whole = ClaimWhole(arg)
              /\ Scaled(ret.frac, Len(ClaimFracDigits(arg))) = ClaimNumber(ClaimFracDigits(arg))
        /\ arg = T_16_34_8_PR => ret = Seconds(994, <<"8">>)
        /\ arg = T_21_08_4 => ret = Seconds(1268, <<"4">>)
        /\ arg = T_17_55_6_SR => ret = Seconds(1075, <<"6">>)
        /\ arg \in {T_bogus, <<>>} => ret = None

C9_Witness ==
    /\ pc = "return"
    /\ arg = T_16_34_8_PR
    /\ ret = Seconds(994, <<"8">>)


(***************************************************************************)
(* Claims about the batch loops and the meet parsers (SpecBatch).          *)
(***************************************************************************)
MeetScripts == {"meet_builder", "home_builder", "race_page"}

ClaimMinLines == IF script = "race_page" THEN MIN_ROWS ELSE MIN_LINES

ClaimCells(line) == IF line = <<>> THEN <<>> ELSE split(line, ",")

ClaimIsTeamHeader(line) == contains(line, W_Place \o <<",">> \o W_Team)

ClaimIsIndivHeader(line) == contains(line, W_Place \o <<",">> \o W_Grade \o <<",">> \o W_Name)

ClaimIsAthleteHeader(line) ==
    /\ \E i \in DOMAIN ClaimCells(line) : contains(lower(ClaimCells(line)[i]), W_meet_url)
    /\ \E i \in DOMAIN ClaimCells(line) : contains(lower(ClaimCells(line)[i]), W_overall_place)

ClaimIsHeader(line) ==
    IF script = "athlete_builder" THEN ClaimIsAthleteHeader(line) ELSE ClaimIsIndivHeader(line)

ClaimHasHeader(lines) == \E i \in DOMAIN lines : ClaimIsHeader(lines[i])

\* position of the first header line of the results table
ClaimHeaderAt(lines) ==
    CHOOSE i \in DOMAIN lines :
        ClaimIsHeader(lines[i]) /\ \A j \in 1..(i - 1) : ~ClaimIsHeader(lines[j])

ClaimNonBlank(line) == \E i \in DOMAIN line : line[i] \notin {" ", "\t", ","}

\* the data rows of the results table: the non-blank lines after its header
ClaimDataRows(lines) ==
    IF ~ClaimHasHeader(lines) THEN <<>>
    ELSE LET after == SubSeq(lines, ClaimHeaderAt(lines) + 1, Len(lines))
             kept == SelectSeq(after, ClaimNonBlank)
         IN [i \in DOMAIN kept |-> ClaimCells(kept[i])]

ClaimHeaderCells(lines) ==
    IF ClaimHasHeader(lines) THEN ClaimCells(lines[ClaimHeaderAt(lines)]) ELSE <<>>

\* the three ways a meet file is malformed; an athlete file is malformed
\* when it has no header row
ClaimMalformed(lines) ==
    IF script = "athlete_builder" THEN ~ClaimHasHeader(lines)
    ELSE \/ Len(lines) < ClaimMinLines
         \/ ~\E i \in DOMAIN lines : ClaimIsTeamHeader(lines[i])
         \/ ~ClaimHasHeader(lines)
         \/ ClaimDataRows(lines) = <<>>

\* C1: in a batch, a malformed file is skipped and every remaining file is
\* still processed: each well-formed file yields its output however many
\* malformed files precede it, and the run does not abort.
C1_MalformedFilesIsolated ==
    /\ raised = "none"
    /\ \A k \in DOMAIN records :
          ~ClaimMalformed(csv_files[k]) => records[k].kind = "generated"

\* C2: parsing a meet CSV fails exactly when the file has fewer than the
\* minimum lines, a required header line is not found, or the individual
\* block has no data row; in every other case a record is produced.
C2_MeetParseFailsExactly ==
    script \in MeetScripts =>
        \A k \in DOMAIN records :
            (records[k].kind # "generated") <=> ClaimMalformed(csv_files[k])

\* C3: every meet record of a successful parse has at least one
\* individual-result row, in any of the meet parsers.
C3_IndividualResultsNonEmpty ==
    script \in MeetScripts =>
        \A k \in DOMAIN records :
            records[k].kind = "generated" => Len(records[k].individual) >= 1

\* the mappings a script built from the data rows of a file
ClaimMappings(rec) == IF script = "athlete_builder" THEN rec.dict_rows ELSE rec.individual

\* column c of a mapping
ClaimField(m, header, c) ==
    IF script = "race_page"
    THEN <<m.place, m.grade, m.name, m.athlete_link, m.time, m.team, m.team_link,
           m.profile_pic>>[c]
    ELSE m[header[c]]

\* C6: a data row with fewer cells than the header is never dropped for
\* being short: every data row has a mapping, every header column is present
\* in it, and the missing trailing fields read as the empty string.
C6_ShortRowsPadded ==
    \A k \in DOMAIN records :
        (records[k].kind = "generated" /\ ClaimHasHeader(csv_files[k])) =>
            LET rows == ClaimDataRows(csv_files[k])
                header == ClaimHeaderCells(csv_files[k])
                maps == ClaimMappings(records[k])
            IN /\ Len(maps) = Len(rows)
               /\ \A i \in DOMAIN rows : \A c \in DOMAIN header :
                     ClaimField(maps[i], header, c)
                         = IF c <= Len(rows[i]) THEN rows[i][c] ELSE <<>>


(***************************************************************************)
(* Claims about the team filter (SpecFilter).                              *)
(***************************************************************************)
ClaimTeam(m) == IF script = "race_page" THEN m.team ELSE m[W_Team]

ClaimCount(rows, x) == Cardinality({i \in DOMAIN rows : rows[i] = x})

ClaimSameCase(m) == strip(ClaimTeam(m)) = SKYLINE_TEAM_NAME

ClaimAnyCase(m) == lower(strip(ClaimTeam(m))) = lower(SKYLINE_TEAM_NAME)

ClaimMatch(m, any_case) == IF any_case THEN ClaimAnyCase(m) ELSE ClaimSameCase(m)

\* `shown` holds exactly the rows of `all` that match, each as often as `all`
\* holds it
ClaimExactlyMatching(shown, all, any_case) ==
    \A x \in Range(shown) \cup Range(all) :
        ClaimCount(shown, x) = IF ClaimMatch(x, any_case) THEN ClaimCount(all, x) ELSE 0

ClaimPlace(m) == m[W_Place]

\* the place trimmed and without its trailing "."s
ClaimPlaceCore(m) ==
    LET t == strip(ClaimPlace(m))
        n == CHOOSE k \in 0..Len(t) :
                 /\ k = 0 \/ t[k] # "."
                 /\ \A j \in (k + 1)..Len(t) : t[j] = "."
    IN SubSeq(t, 1, n)

ClaimNumericPlace(m) ==
    /\ ClaimPlaceCore(m) # <<>>
    /\ \A i \in DOMAIN ClaimPlaceCore(m) : ClaimPlaceCore(m)[i] \in Range(Digits)

ClaimPlaceValue(m) == ClaimNumber(ClaimPlaceCore(m))

\* position in the file of a row of the sorted output
ClaimOrigin(m, all) == CHOOSE i \in DOMAIN all : all[i][W_Name] = m[W_Name]

ClaimPermutation(out, all) ==
    /\ Len(out) = Len(all)
    /\ \A i \in DOMAIN all : \E j \in DOMAIN out : out[j] = all[i]

ClaimPlaces(rows) == [i \in DOMAIN rows |-> ClaimPlace(rows[i])]

\* C5 as claimed: the sorted rows are a permutation of the filtered rows,
\* numeric places first in ascending order, every non-numeric place after all
\* numeric ones, equal keys in their original order.
C5_NumericBeforeNonNumeric ==
    \A k \in DOMAIN records :
        records[k].kind = "generated" =>
            LET out == records[k].runners
                all == records[k].individual
            IN /\ ClaimPermutation(out, all)
               /\ \A i, j \in DOMAIN out :
                     /\ (ClaimNumericPlace(out[i]) /\ ~ClaimNumericPlace(out[j])) => i < j
                     /\ (i < j /\ ClaimNumericPlace(out[i]) /\ ClaimNumericPlace(out[j]))
                           => ClaimPlaceValue(out[i]) <= ClaimPlaceValue(out[j])

\* the sort key the amended claim names: the number, or 999999
ClaimKey(m) == IF ClaimNumericPlace(m) THEN ClaimPlaceValue(m) ELSE PLACE_SENTINEL

\* C5, amended: the sorted rows are a permutation of the filtered rows in
\* ascending order of the key "integer place (after trimming and stripping
\* trailing '.'s) when numeric, 999999 otherwise", rows of equal key in their
\* original order; so numeric places below 999999 come first in ascending
\* order and every non-numeric place comes after them, in original order,
\* but before any numeric place above 999999.  Places "3", "1.", "abc", "2"
\* give the order 1., 2, 3, abc.
C5_StableSortBySentinelKey ==
    \A k \in DOMAIN records :
        records[k].kind = "generated" =>
            LET out == records[k].runners
                all == records[k].individual
            IN /\ ClaimPermutation(out, all)
               /\ \A i, j \in DOMAIN out :
                     /\ i < j => ClaimKey(out[i]) <= ClaimKey(out[j])
                     /\ (i < j /\ ClaimKey(out[i]) = ClaimKey(out[j]))
                           => ClaimOrigin(out[i], all) < ClaimOrigin(out[j], all)
                     /\ (/\ ClaimNumericPlace(out[i])
                         /\ ClaimPlaceValue(out[i]) < PLACE_SENTINEL
                         /\ ~ClaimNumericPlace(out[j])) => i < j
               /\ ClaimPlaces(all) = <<<<"3">>, <<"1", ".">>, W_abc, <<"2">>>>
                     => ClaimPlaces(out) = <<<<"1", ".">>, <<"2">>, <<"3">>, W_abc>>

C5_Witness ==
    /\ script = "meet_builder"
    /\ Len(records) = 1
    /\ records[1].kind = "generated"
    /\ ClaimPlaces(records[1].individual) = <<<<"3">>, <<"1", ".">>, W_abc, <<"2">>>>
    /\ ClaimPlaces(records[1].runners) = <<<<"1", ".">>, <<"2">>, <<"3">>, W_abc>>

(***************************************************************************)
(* Claims about the athlete header (SpecAthlete).                          *)
(***************************************************************************)
\* C10: header discovery returns the lowest-indexed row whose cells, joined
\* and lowercased, contain both "meet url" and "overall place"; only rows
\* strictly after it are taken as data; when no row qualifies, parsing fails
\* and no record is produced.
C10_AthleteHeaderDiscovery ==
    \A k \in DOMAIN records :
        IF ClaimHasHeader(csv_files[k])
        THEN /\ records[k].kind = "generated"
             /\ records[k].header_idx + 1 = ClaimHeaderAt(csv_files[k])
             /\ Len(records[k].dict_rows) = Len(ClaimDataRows(csv_files[k]))
             /\ \A i \in DOMAIN ClaimDataRows(csv_files[k]) :
                   \A c \in DOMAIN ClaimHeaderCells(csv_files[k]) :
                       records[k].dict_rows[i][strip(ClaimHeaderCells(csv_files[k])[c])]
                           = IF c <= Len(ClaimDataRows(csv_files[k])[i])
                             THEN ClaimDataRows(csv_files[k])[i][c] ELSE <<>>
        ELSE records[k].kind = "error"

\* the header is found after a metadata row and a blank row, and the one row
\* after it is the data
C10_Witness ==
    /\ Len(records) = 1
    /\ records[1].kind = "generated"
    /\ csv_files[1] = AthleteFile(<<A_name, <<>>, AthleteHeader, A_race>>)
    /\ records[1].header_idx = 2
    /\ Len(records[1].races) = 1

(***************************************************************************)
(* Claims about the athlete rows (SpecRaces).                              *)
(***************************************************************************)
\* the trimmed cell of a data row under the column of that name of the
\* header cells h
ClaimAthleteField(h, row, column) ==
    LET cols == {c \in DOMAIN h : strip(h[c]) = column}
        last == CHOOSE c \in cols : \A d \in cols : d <= c
    IN IF cols = {} THEN <<>>
       ELSE IF last > Len(row) THEN <<>>
       ELSE strip(row[last])

ClaimFourDigits(t) == Len(t) = 4 /\ \A i \in DOMAIN t : t[i] \in Range(Digits)

ClaimIsSeason(h, row) ==
    /\ ClaimFourDigits(ClaimAthleteField(h, row, W_OverallPlace))
    /\ ClaimAthleteField(h, row, W_Grade) # <<>>

ClaimIsRace(h, row) ==
    /\ ~ClaimIsSeason(h, row)
    /\ ClaimAthleteField(h, row, W_Meet) # <<>>

ClaimSeasons(lines) ==
    LET h == ClaimHeaderCells(lines)
    IN SelectSeq(ClaimDataRows(lines), LAMBDA row : ClaimIsSeason(h, row))

ClaimRaces(lines) ==
    LET h == ClaimHeaderCells(lines)
    IN SelectSeq(ClaimDataRows(lines), LAMBDA row : ClaimIsRace(h, row))

\* C11: the season records are, in file order, exactly the non-blank data
\* rows whose Overall Place is 4 digits and whose Grade is non-empty, whether
\* or not they name a Meet; the races are, in file order, exactly the other
\* rows that name a Meet; every other row is in neither list, and no row is
\* in both.
C11_RowClassification ==
    \A k \in DOMAIN records :
        records[k].kind = "generated" =>
            LET h == ClaimHeaderCells(csv_files[k])
                seasons == ClaimSeasons(csv_files[k])
                races == ClaimRaces(csv_files[k])
            IN /\ Len(records[k].season_records) = Len(seasons)
               /\ \A i \in DOMAIN seasons :
                     /\ records[k].season_records[i].year
                            = ClaimAthleteField(h, seasons[i], W_OverallPlace)
                     /\ records[k].season_records[i].grade
                            = ClaimAthleteField(h, seasons[i], W_Grade)
                     /\ records[k].season_records[i].sr
                            = ClaimAthleteField(h, seasons[i], W_Time)
               /\ Len(records[k].races) = Len(races)
               /\ \A i \in DOMAIN races :
                     /\ records[k].races[i].meet = ClaimAthleteField(h, races[i], W_Meet)
                     /\ records[k].races[i].place
                            = ClaimAthleteField(h, races[i], W_OverallPlace)
                     /\ records[k].races[i].time = ClaimAthleteField(h, races[i], W_Time)
               /\ Len(records[k].season_records) + Len(records[k].races)
                     <= Len(ClaimDataRows(csv_files[k]))

\* a season row that names a meet, then the race with place "2023" and no
\* grade, then a row that is dropped
C11_Witness ==
    /\ Len(records) = 1
    /\ records[1].kind = "generated"
    /\ csv_files[1] =
          AthleteFile(<<A_name, A_id, AthleteHeader,
                        DataRow(Year(4), <<"1", "2">>, <<"1", "6", ":", "4", "0">>, W_Inv),
                        DataRow(Year(3), <<>>, <<"1", "6", ":", "3", "4", ".", "8", "P", "R">>, W_Inv),
                        DataRow(<<"1", "2">>, <<"1", "1">>, <<"1", "4", ":", "0", "0">>, <<>>)>>)
    /\ Len(records[1].season_records) = 1
    /\ records[1].season_records[1].year = Year(4)
    /\ Len(records[1].races) = 1
    /\ records[1].races[1].place = Year(3)

\* C12: most_recent_grade is absent exactly when the file has no season
\* record; otherwise it is the non-empty grade of a season record whose year
\* no other season record exceeds.
C12_MostRecentGrade ==
    \A k \in DOMAIN records :
        records[k].kind = "generated" =>
            LET h == ClaimHeaderCells(csv_files[k])
                seasons == ClaimSeasons(csv_files[k])
                year(i) == ClaimNumber(ClaimAthleteField(h, seasons[i], W_OverallPlace))
            IN /\ (records[k].most_recent_grade = <<>>) <=> (seasons = <<>>)
               /\ seasons # <<>> =>
                     /\ records[k].most_recent_grade[1] # <<>>
                     /\ \E i \in DOMAIN seasons :
                           /\ \A j \in DOMAIN seasons : year(j) <= year(i)
                           /\ records[k].most_recent_grade[1]
                                  = ClaimAthleteField(h, seasons[i], W_Grade)

\* the season of the largest year comes first in the file
C12_Witness ==
    /\ Len(records) = 1
    /\ records[1].kind = "generated"
    /\ Len(records[1].season_records) = 2
    /\ records[1].season_records[1].year = Year(4)
    /\ records[1].season_records[2].year = Year(3)
    /\ records[1].most_recent_grade = <<<<"1", "2">>>>

\* C13: a race whose grade is blank in the file has most_recent_grade as its
\* grade in the record when there is one, and the empty grade when there is
\* none; with the most recent season grade "12" and every race blank in the
\* file, every race of the record has grade "12".
C13_GradeBackfill ==
    \A k \in DOMAIN records :
        records[k].kind = "generated" =>
            LET h == ClaimHeaderCells(csv_files[k])
                races == ClaimRaces(csv_files[k])
                blank(i) == ClaimAthleteField(h, races[i], W_Grade) = <<>>
            IN /\ Len(records[k].races) = Len(races)
               /\ \A i \in DOMAIN races :
                     blank(i) =>
                         records[k].races[i].grade
                             = IF records[k].most_recent_grade = <<>> THEN <<>>
                               ELSE records[k].most_recent_grade[1]
               /\ (records[k].most_recent_grade = <<<<"1", "2">>>>
                    /\ \A i \in DOMAIN races : blank(i)) =>
                       \A i \in DOMAIN records[k].races :
                           records[k].races[i].grade = <<"1", "2">>

\* two races with a blank grade in a file whose one season has grade "12"
C13_Witness ==
    /\ Len(records) = 1
    /\ records[1].kind = "generated"
    /\ records[1].most_recent_grade = <<<<"1", "2">>>>
    /\ Len(ClaimRaces(csv_files[1])) = 2
    /\ \A i \in 1..2 :
          ClaimAthleteField(ClaimHeaderCells(csv_files[1]), ClaimRaces(csv_files[1])[i], W_Grade)
              = <<>>
    /\ \A i \in 1..2 : records[1].races[i].grade = <<"1", "2">>

(***************************************************************************)
(* Claims about the bio and the grade tables (SpecRaces).                  *)
(***************************************************************************)
\* a place text trimmed and without its trailing "."s
ClaimCore(place) ==
    LET t == strip(place)
        n == CHOOSE k \in 0..Len(t) :
                 /\ k = 0 \/ t[k] # "."
                 /\ \A j \in (k + 1)..Len(t) : t[j] = "."
    IN SubSeq(t, 1, n)

ClaimIsNumber(t) == t # <<>> /\ \A i \in DOMAIN t : t[i] \in Range(Digits)

ClaimHasNumericPlace(r) == ClaimIsNumber(ClaimCore(r.place))

ClaimPlaceOf(r) == ClaimNumber(ClaimCore(r.place))

\* the parsed seconds of a time text, in thousandths
ClaimThousandths(t) == ClaimWhole(t) * 1000 + Scaled(ClaimFracDigits(t), 3)

ClaimSentences(bio, which) == SelectSeq(bio, LAMBDA x : x.sentence = which)

\* C14: the bio starts with the identity sentence and ends with the closing
\* sentence; it has a best-placement sentence exactly when some race has a
\* numeric place, naming the smallest such place and the meet of the first
\* race that has it; it has a best-time sentence exactly when some race time
\* parses, naming the time text of a race of minimum parsed seconds; the
\* sentences come in that order.
C14_AutoBio ==
    \A k \in DOMAIN records :
        records[k].kind = "generated" =>
            LET R == records[k].races
                bio == records[k].html.bio
                placed == {i \in DOMAIN R : ClaimHasNumericPlace(R[i])}
                timed == {i \in DOMAIN R : ClaimWellFormedTime(R[i].time)}
                placement == ClaimSentences(bio, "best_placement")
                time == ClaimSentences(bio, "best_time")
            IN /\ bio[1].sentence = "identity"
               /\ bio[Len(bio)].sentence = "closing"
               /\ Len(bio) = 2 + Len(placement) + Len(time)
               /\ Len(placement) = IF placed = {} THEN 0 ELSE 1
               /\ Len(time) = IF timed = {} THEN 0 ELSE 1
               /\ placed # {} =>
                     /\ bio[2] = placement[1]
                     /\ \E i \in placed :
                           /\ \A j \in placed : ClaimPlaceOf(R[i]) <= ClaimPlaceOf(R[j])
                           /\ \A j \in placed : j < i => ClaimPlaceOf(R[i]) < ClaimPlaceOf(R[j])
                           /\ placement[1].at = R[i].meet
                           /\ placement[1].names
                                  = format_int(ClaimPlaceOf(R[i])) \o ClaimSuffix(ClaimPlaceOf(R[i]))
               /\ timed # {} =>
                     /\ bio[Len(bio) - 1] = time[1]
                     /\ \E i \in timed :
                           /\ \A j \in timed :
                                 ClaimThousandths(R[i].time) <= ClaimThousandths(R[j].time)
                           /\ time[1].names = R[i].time

\* two races tie on place 5, the first at "Inv"; the third race has the
\* best time
C14_Witness ==
    /\ Len(records) = 1
    /\ records[1].kind = "generated"
    /\ Len(records[1].races) = 3
    /\ records[1].races[1].place = <<"5", ".">>
    /\ records[1].races[2].place = <<"5">>
    /\ records[1].races[2].meet = W_Dual
    /\ records[1].html.bio =
          <<[sentence |-> "identity", names |-> <<"A", "l">>, grade |-> <<"?">>],
            [sentence |-> "best_placement", names |-> <<"5", "t", "h">>, at |-> W_Inv],
            [sentence |-> "best_time", names |-> <<"1", "5", ":", "5", ".", "5">>],
            [sentence |-> "closing"]>>

ClaimLabel(r) == IF r.grade = <<>> THEN W_Other ELSE r.grade

ClaimOccurrences(x, rows) == Cardinality({i \in DOMAIN rows : rows[i] = x})

ClaimOrders(n) == {f \in [1..n -> 1..n] : \A i, j \in 1..n : f[i] = f[j] => i = j}

\* the tables partition the races by label, blank grades under "Other";
\* numeric labels come in descending order and before every other label
ClaimGroups(R, T) ==
    /\ \A a, b \in DOMAIN T : T[a].g = T[b].g => a = b
    /\ \A i \in DOMAIN R : \E t \in DOMAIN T : T[t].g = ClaimLabel(R[i])
    /\ \A t \in DOMAIN T :
          /\ T[t].rows # <<>>
          /\ \A i \in DOMAIN T[t].rows : ClaimLabel(T[t].rows[i]) = T[t].g
          /\ \A i \in DOMAIN R :
                ClaimLabel(R[i]) = T[t].g => ClaimOccurrences(R[i], T[t].rows) = ClaimOccurrences(R[i], R)
    /\ \A a, b \in DOMAIN T :
          a < b =>
              /\ (ClaimIsNumber(T[a].g) /\ ClaimIsNumber(T[b].g))
                    => ClaimNumber(T[a].g) >= ClaimNumber(T[b].g)
              /\ ~ClaimIsNumber(T[a].g) => ~ClaimIsNumber(T[b].g)

\* the races of one label, in file order
ClaimGroup(R, g) == SelectSeq(R, LAMBDA r : ClaimLabel(r) = g)

\* row a sorts strictly before row b: numeric places ascending, every
\* non-numeric place after every numeric one
ClaimBefore(a, b) ==
    /\ ClaimHasNumericPlace(a)
    /\ ClaimHasNumericPlace(b) => ClaimPlaceOf(a) < ClaimPlaceOf(b)

ClaimRowKey(r) == IF ClaimHasNumericPlace(r) THEN ClaimPlaceOf(r) ELSE PLACE_SENTINEL

ClaimParsed == {k \in DOMAIN records : ~ClaimMalformed(csv_files[k])}

ClaimMeetName(k) == strip(csv_files[k][1])

\* the last file processed so far that parsed with that meet name
ClaimLastNamed(name) ==
    CHOOSE k \in ClaimParsed :
        /\ ClaimMeetName(k) = name
        /\ \A j \in ClaimParsed : ClaimMeetName(j) = name => j <= k

\* C16: at every point of the run, recent_races has exactly one entry per
\* distinct meet name among the files processed so far that parsed, and the
\* entry of a name is that of the last such file with the name: its date,
\* its filtered rows and its page link; a skipped file adds and changes no
\* entry.
C16_OneEntryPerMeetName ==
    /\ \A a, b \in DOMAIN recent_races : recent_races[a].key = recent_races[b].key => a = b
    /\ {recent_races[i].key : i \in DOMAIN recent_races} = {ClaimMeetName(k) : k \in ClaimParsed}
    /\ \A i \in DOMAIN recent_races :
          \E k \in ClaimParsed :
              /\ k = ClaimLastNamed(recent_races[i].key)
              /\ recent_races[i].value.meet_date = strip(csv_files[k][2])
              /\ recent_races[i].value.skyline = records[k].runners
              /\ recent_races[i].value.race_html = race_html_of(k)

\* two files named "M1" and then a file too short to parse: the one entry is
\* that of the second file
C16_Witness ==
    /\ Len(records) = 3
    /\ records[1].kind = "generated"
    /\ records[2].kind = "generated"
    /\ records[3].kind = "skipped"
    /\ Len(recent_races) = 1
    /\ recent_races[1].key = <<"M", "1">>
    /\ recent_races[1].value.meet_date = D_sat_oct_4_2025
    /\ recent_races[1].value.race_html = race_html_of(2)

\* the words of a date text
ClaimDateWords(text) == SelectSeq(split(text, " "), LAMBDA w : w # <<>>)

ClaimMonth(w) ==
    CHOOSE m \in 1..12 :
        [i \in DOMAIN w |-> IF w[i] \in Range(UpperCase) THEN LowerCase[IndexIn(w[i], UpperCase)]
                            ELSE w[i]] = Months[m]

\* year, month, day of a date text in the form "Sat Sep 06 2025"
ClaimDate(text) ==
    <<ClaimNumber(ClaimDateWords(text)[4]), ClaimMonth(ClaimDateWords(text)[2]),
      ClaimNumber(ClaimDateWords(text)[3])>>

ClaimNotAfter(d, e) ==
    \/ d[1] < e[1]
    \/ d[1] = e[1] /\ d[2] < e[2]
    \/ d[1] = e[1] /\ d[2] = e[2] /\ d[3] <= e[3]

\* the page, once written, was written after the last file was processed and
\* lists every entry of recent_races once, in ascending order of date
ClaimListedByDate ==
    index_html.written =>
        /\ next_file > Len(csv_files)
        /\ Len(index_html.articles) = Len(recent_races)
        /\ \A i \in DOMAIN recent_races :
              \E a \in DOMAIN index_html.articles :
                  /\ index_html.articles[a].meet = recent_races[i].key
                  /\ index_html.articles[a].meet_date = recent_races[i].value.meet_date
        /\ \A a, b \in DOMAIN index_html.articles :
              a < b => ClaimNotAfter(ClaimDate(index_html.articles[a].meet_date),
                                     ClaimDate(index_html.articles[b].meet_date))

\* C17: the home page is written only after every meet file has been
\* processed, it lists the entries of recent_races in ascending order of
\* their parsed date, and no exception ends the run, whatever the date texts
\* of the meets are.
C17_HomeRenderedInDateOrder == ClaimListedByDate /\ raised = "none"

RECURSIVE ClaimFirstSeen(_)
ClaimFirstSeen(names) ==
    IF names = <<>> THEN <<>>
    ELSE LET front == ClaimFirstSeen(SubSeq(names, 1, Len(names) - 1))
         IN IF \E i \in DOMAIN front : front[i] = names[Len(names)] THEN front
            ELSE Append(front, names[Len(names)])

\* the runner names of the filtered rows of the meets, meet after meet
RECURSIVE ClaimNames(_)
ClaimNames(meets) ==
    IF meets = <<>> THEN <<>>
    ELSE [i \in DOMAIN meets[1].value.skyline |-> meets[1].value.skyline[i][W_Name]]
             \o ClaimNames(Tail(meets))

ClaimRosterNames == [i \in DOMAIN index_html.roster |-> index_html.roster[i].key]

\* the stored meets in the order the page lists them, which is date order
ClaimMeetsByDate ==
    [a \in DOMAIN index_html.articles |->
        recent_races[CHOOSE i \in DOMAIN recent_races :
                         recent_races[i].key = index_html.articles[a].meet]]

\* one entry per distinct runner name of the stored meets, each linking to
\* the page named after the runner
ClaimRosterEntries ==
    /\ \A a, b \in DOMAIN index_html.roster :
          index_html.roster[a].key = index_html.roster[b].key => a = b
    /\ {index_html.roster[i].key : i \in DOMAIN index_html.roster}
          = {ClaimNames(recent_races)[i] : i \in DOMAIN ClaimNames(recent_races)}
    /\ \A i \in DOMAIN index_html.roster :
          LET name == index_html.roster[i].key
              link == index_html.roster[i].value
          IN /\ Len(link) = Len(name) + 5
             /\ SubSeq(link, Len(name) + 1, Len(link)) = <<".", "h", "t", "m", "l">>
             /\ \A c \in DOMAIN name :
                   link[c] = IF name[c] = " " THEN "-"
                             ELSE IF name[c] \in Range(UpperCase)
                                  THEN LowerCase[IndexIn(name[c], UpperCase)]
                                  ELSE name[c]

\* C18 as claimed: the roster of the written page has one entry per distinct
\* runner name of the stored meets' filtered rows, in the order the names are
\* first seen when the meets are visited in date-sorted order.
C18_RosterInDateOrder ==
    index_html.written =>
        /\ ClaimRosterEntries
        /\ ClaimRosterNames = ClaimFirstSeen(ClaimNames(ClaimMeetsByDate))

\* C18, amended: the roster of the written page has one entry per distinct
\* runner name of the stored meets' filtered rows, in the order the names are
\* first seen when the meets are visited in the order recent_races stores
\* them (the order their names were first stored), which need not be date
\* order; an entry is added the first time its name is seen and is the link
\* made from the name alone.
C18_RosterInStoredOrder ==
    index_html.written =>
        /\ ClaimRosterEntries
        /\ ClaimRosterNames = ClaimFirstSeen(ClaimNames(recent_races))

\* the meet of Sep 06 (runner Al) is stored before the meet of Aug 29
\* (runners Cy, Al): the page lists the August meet first, the roster has Al
\* first
C18_Witness ==
    /\ index_html.written
    /\ Len(recent_races) = 2
    /\ recent_races[1].value.meet_date = D_Sat_Sep_06_2025
    /\ recent_races[2].value.meet_date = D_Fri_Aug_29_2025
    /\ index_html.articles[1].meet_date = D_Fri_Aug_29_2025
    /\ ClaimRosterNames = <<N_Al, N_Cy>>

(***************************************************************************)
(* Claims about the two teen rules of ordinal (SpecOrdinal).               *)
(***************************************************************************)
\* C19: for every number n the teen rule "n mod 100 in 10..20" and the teen
\* rule "n mod 100 in 11..13" give the same suffix, and on every all-digit
\* input the ordinal of each of the four source files returns the same text.
C19_TeenRulesAgree ==
    (pc = "return" /\ ClaimIsNumber(arg)) =>
        /\ suffix_10_20(ClaimNumber(arg)) = suffix_11_13(ClaimNumber(arg))
        /\ \A file \in Scripts : ordinal(file, arg) = ret

\* 113: in 11..13 and in 10..20; the race page's ordinal returns "113th"
C19_Witness ==
    /\ pc = "return"
    /\ script = "race_page"
    /\ arg = <<"1", "1", "3">>
    /\ ret = <<"1", "1", "3", "t", "h">>

=============================================================================
